---- MODULE Spec2Model ----
(***************************************************************************)
(* Model of scholarship_tracker.py: the Database class (the sqlite table   *)
(* "scholarships" with add_scholarship, mark_as_sent and                   *)
(* get_unsent_scholarships), the ScholarshipData constructor that stamps   *)
(* a record with the local clock, and the run entry point main() with the  *)
(* Formatter (process_with_gemini) and the Notifier (send_email).          *)
(*                                                                         *)
(* Time is counted in ticks, TicksPerDay ticks to a calendar day.  A       *)
(* timestamp is kept as the TEXT the program stores: Python's isoformat()  *)
(* writes date, the letter T, time of day; sqlite's datetime() writes      *)
(* date, a blank, time of day.  The WHERE clause compares the two as       *)
(* text.  The clock datetime.now() reads and the clock sqlite reads are    *)
(* taken to be one clock.                                                  *)
(*                                                                         *)
(* The program is single-threaded: a Database call is made only while no   *)
(* run of main() is under way.  Spec is the Database under the clock;      *)
(* RunSpec is the runs of main() and process_scholarships() with the       *)
(* Database calls between them.                                            *)
(* Records are added during the first MaxIngestTicks ticks; the clock      *)
(* then runs on to day MaxDays.                                            *)
(***************************************************************************)
EXTENDS Integers, Sequences, FiniteSets, TLC

\* ------------------------------------------------------------ bounds ----
TicksPerDay == 2
MaxDays == 8
MaxIngestTicks == 4
MaxRuns == 2
MaxIngestLen == 2

\* ------------------------------------------------- program constants ----
RetentionDays == 7

\* Titles and sources are strings, written as sequences of characters; the
\* (title, source) pairs records are built from.
TitleSource ==
    { <<(<<"a">>), (<<"c">>)>>,
      <<(<<"a">>), (<<"b", "c">>)>>,
      <<(<<"a", "b">>), (<<"c">>)>> }

None == "None"

\* The remaining constructor arguments (description, url, amount, deadline).
Payloads ==
    { [description |-> "d1", url |-> "u1", amount |-> None, deadline |-> None],
      [description |-> "d2", url |-> "u2", amount |-> "a2", deadline |-> "l2"] }

\* the environment variables the module reads
EnvVars == {"GOOGLE_API_KEY", "EMAIL_ADDRESS", "EMAIL_PASSWORD", "RECIPIENT_EMAIL"}

VARIABLES
    env,            \* the environment variables that are set
    pc,             \* where the process is: "import", "config_error", "idle",
                    \* inside main(): "format", "send", or "crashed" once an
                    \* exception has left a run
    run,            \* the current (or last) run of main(): what each step returned
    runs,           \* runs of main() started so far
    deliveries,     \* id -> number of runs in which send_email delivered it
    now,            \* the clock, in ticks
    scholarships,   \* the table: a set of rows
    lastOp,         \* the Database call just made, its argument and what it returned
    everUpserted,   \* ids add_scholarship was ever called for
    everMarked,     \* ids mark_as_sent was ever called with
    offered         \* ids the last get_unsent_scholarships returned, less those
                    \* marked since; void once a record is added or an id it
                    \* did not return is marked

dbVars == <<scholarships, lastOp, everUpserted, everMarked, offered>>
runVars == <<run, runs, deliveries>>
vars == <<env, pc, run, runs, deliveries, now, scholarships, lastOp, everUpserted, everMarked, offered>>

\* ---------------------------------------------------------- text time ---
\* datetime.now().isoformat(): 'YYYY-MM-DDTHH:MM:SS.ffffff'
isoformat(t) == <<t \div TicksPerDay, "T", t % TicksPerDay>>

\* sqlite datetime(...): 'YYYY-MM-DD HH:MM:SS'
sqlite_datetime(t) == <<t \div TicksPerDay, " ", t % TicksPerDay>>

\* the byte of the separator between date and time of day
CharCode(c) == IF c = "T" THEN 84 ELSE 32

\* a > b for TEXT values under sqlite's BINARY collation (memcmp): the
\* zero-padded date, then the separator, then the time of day
TextGreater(a, b) ==
    \/ a[1] > b[1]
    \/ /\ a[1] = b[1]
       /\ \/ CharCode(a[2]) > CharCode(b[2])
          \/ CharCode(a[2]) = CharCode(b[2]) /\ a[3] > b[3]

\* the instant a stored timestamp text denotes
Instant(text) == text[1] * TicksPerDay + text[3]

\* --------------------------------------------------- ScholarshipData ----
\* ScholarshipData.__init__ called when the local clock shows t
ScholarshipData(title, source, p, t) ==
    [title |-> title, description |-> p.description, source |-> source,
     url |-> p.url, amount |-> p.amount, deadline |-> p.deadline,
     timestamp |-> isoformat(t)]

\* hashlib.md5(...).hexdigest(), taken to be free of collisions: the digest
\* stands for the byte string that was hashed
md5_hexdigest(bytes) == [md5 |-> bytes]

\* the title alone hashed
scholarship_id_of_title(scholarship) == md5_hexdigest(scholarship.title)

\* f"{scholarship.title}{scholarship.source}" hashed
scholarship_id(scholarship) == md5_hexdigest(scholarship.title \o scholarship.source)

Ids == { md5_hexdigest(ts[1] \o ts[2]) : ts \in TitleSource }

\* the ids a caller may pass to mark_as_sent: those of the records, and the
\* digest of a string that is no record's title and source
CallerIds == Ids \cup { md5_hexdigest(<<"z">>) }

\* AVAILABLE_SCHOLARSHIPS: the catalog, built once when the module is
\* imported (clock 0); two of its entries share a source
AVAILABLE_SCHOLARSHIPS ==
    << ScholarshipData(<<"a">>, <<"c">>,
            [description |-> "d1", url |-> "u1", amount |-> None, deadline |-> None], 0),
       ScholarshipData(<<"a", "b">>, <<"c">>,
            [description |-> "d2", url |-> "u2", amount |-> "a2", deadline |-> "l2"], 0) >>

\* get_available_scholarships()
get_available_scholarships == AVAILABLE_SCHOLARSHIPS

\* the records a caller can hold at clock t: one built just now (as
\* fetch_scholarship_data builds them) or one of the catalog
Candidates(t) ==
    { ScholarshipData(ts[1], ts[2], p, t) : ts \in TitleSource, p \in Payloads }
    \cup { get_available_scholarships[i] : i \in DOMAIN get_available_scholarships }

\* ----------------------------------------------------------- Database ---
\* the row INSERT writes: the eight named columns from the record,
\* sent_in_email from the column's DEFAULT FALSE
InsertedRow(scholarship) ==
    [id |-> scholarship_id(scholarship),
     title |-> scholarship.title, description |-> scholarship.description,
     source |-> scholarship.source, url |-> scholarship.url,
     amount |-> scholarship.amount, deadline |-> scholarship.deadline,
     timestamp |-> scholarship.timestamp, sent_in_email |-> FALSE]

\* INSERT OR IGNORE in place of INSERT OR REPLACE: a row already stored
\* under the id is kept
UpsertedOrIgnore(table, scholarship) ==
    IF \E r \in table : r.id = scholarship_id(scholarship)
        THEN table
        ELSE table \cup { InsertedRow(scholarship) }

\* the table after INSERT OR REPLACE: the rows that conflict on the primary
\* key are deleted, then the new row is inserted
Upserted(table, scholarship) ==
    { r \in table : r.id # scholarship_id(scholarship) } \cup { InsertedRow(scholarship) }

\* UPDATE ... SET sent_in_email = TRUE without its WHERE clause
MarkedSentAll(table, ids) ==
    { [r EXCEPT !.sent_in_email = TRUE] : r \in table }

\* the table after UPDATE ... SET sent_in_email = TRUE WHERE id = ?, once
\* for each id given
MarkedSent(table, ids) ==
    { IF r.id \in ids THEN [r EXCEPT !.sent_in_email = TRUE] ELSE r : r \in table }

\* the WHERE clause comparing calendar dates only: date(timestamp) > date('now', '-7 days')
SelectedLaterDate(row, clock) ==
    /\ row.sent_in_email = FALSE
    /\ row.timestamp[1] > sqlite_datetime(clock - RetentionDays * TicksPerDay)[1]

\* the WHERE clause without its timestamp condition
SelectedNoWindow(row, clock) == row.sent_in_email = FALSE

\* WHERE sent_in_email = FALSE AND timestamp > datetime('now', '-7 days')
Selected(row, clock) ==
    /\ row.sent_in_email = FALSE
    /\ TextGreater(row.timestamp, sqlite_datetime(clock - RetentionDays * TicksPerDay))

\* SELECT * ... fetchall(): the rows that pass the WHERE clause
UnsentRows(table, clock) == { r \in table : Selected(r, clock) }

\* the ids of a set of rows
IdsOf(rows) == { r.id : r \in rows }

\* ------------------------------------------------ Formatter, Notifier ---
\* the string process_with_gemini returns from its except branch
ErrorSentinel == [kind |-> "error_text", records |-> << >>]

\* process_with_gemini(scholarships): response.text of the model (a digest
\* of the records, or an empty string), or the sentinel when anything raised
process_with_gemini(records, outcome) ==
    CASE outcome = "html"   -> [kind |-> "html", records |-> records]
      [] outcome = "empty"  -> [kind |-> "empty", records |-> << >>]
      [] outcome = "raised" -> ErrorSentinel

\* Python's truth value of a string: only the empty string is falsy
Truthy(content) == content.kind # "empty"

\* enhance_scholarship_content(content): the content between a style block
\* and the share buttons and script
enhance_scholarship_content(content) ==
    [kind |-> content.kind, records |-> content.records, enhanced |-> TRUE]

\* validate_email_config(): the issues it lists
validate_email_config(environment) ==
    { v \in {"EMAIL_ADDRESS", "RECIPIENT_EMAIL"} : v \notin environment }

\* the ids of the records a mail body presents
IdsIn(content) == { scholarship_id(content.records[i]) : i \in DOMAIN content.records }

\* send_email: os.getenv('RECIPIENT_EMAIL', 'muskan7892gupta@gmail.com')
recipient_email(environment) ==
    IF "RECIPIENT_EMAIL" \in environment THEN "RECIPIENT_EMAIL" ELSE "fallback"

\* send_email's two log lines
send_email_log(delivered) ==
    IF delivered THEN "Email sent successfully" ELSE "Error sending email"

\* process_with_gemini's log line, written in its except branch only
process_with_gemini_log(outcome) ==
    IF outcome = "raised" THEN {"Error processing with Gemini"} ELSE {}

\* what the call get_available_scholarships() can hand to a run: the
\* catalog, or an empty list, the case main() tests for
ContentSourceResults == { get_available_scholarships, << >> }

\* a run without an except clause: the exception leaves the run
main_no_except == "crashed"

\* main's except clause: the error is logged and main returns
main_except == "idle"

Void == [valid |-> FALSE, ids |-> {}]

NoRun == [entry |-> "none", fetched |-> 0, formatter |-> "none", notifier |-> "none",
          handed |-> {}, recipient |-> "none", log |-> {}]

Init ==
    /\ env \in {EnvVars} \cup { EnvVars \ {v} : v \in EnvVars }
    /\ pc = "import"
    /\ run = NoRun
    /\ runs = 0
    /\ deliveries = [i \in Ids |-> 0]
    /\ now = 0
    /\ scholarships = {}
    /\ lastOp = [op |-> "none"]
    /\ everUpserted = {}
    /\ everMarked = {}
    /\ offered = Void

\* the module-level statements with the first configuration check alone
ImportKeyOnly ==
    /\ pc = "import"
    /\ pc' = IF "GOOGLE_API_KEY" \notin env THEN "config_error" ELSE "idle"
    /\ UNCHANGED <<env, runVars, now, dbVars>>

\* the module-level statements: the two configuration checks that raise
\* ValueError, then the definitions
Import ==
    /\ pc = "import"
    /\ pc' = IF "GOOGLE_API_KEY" \notin env
                THEN "config_error"
                ELSE IF ~ ({"EMAIL_ADDRESS", "EMAIL_PASSWORD", "RECIPIENT_EMAIL"} \subseteq env)
                        THEN "config_error"
                        ELSE "idle"
    /\ UNCHANGED <<env, runVars, now, dbVars>>

\* main(), up to the call of process_with_gemini: validate_email_config,
\* test_scholarship_data (its issues are logged as warnings; an exception
\* that escapes it reaches main's except clause), get_available_scholarships
main_start ==
    /\ pc = "idle"
    /\ runs < MaxRuns
    /\ runs' = runs + 1
    /\ \E fetched \in ContentSourceResults, checks \in {"clean", "issues", "raised"} :
          IF validate_email_config(env) # {}
          THEN /\ run' = [NoRun EXCEPT !.entry = "main", !.log = validate_email_config(env)]
               /\ pc' = "idle"
          ELSE IF checks = "raised"
          THEN /\ run' = [NoRun EXCEPT !.entry = "main", !.log = {"Error in main"}]
               /\ pc' = main_except
          ELSE IF Len(fetched) = 0
          THEN /\ run' = [NoRun EXCEPT !.entry = "main",
                                       !.log = {"No scholarships available to process"}]
               /\ pc' = "idle"
          ELSE /\ run' = [NoRun EXCEPT !.entry = "main", !.fetched = Len(fetched),
                                       !.log = IF checks = "issues"
                                                  THEN {"test_scholarship_data issue"}
                                                  ELSE {}]
               /\ pc' = "format"
    /\ UNCHANGED <<env, deliveries, now, dbVars>>

\* main(): process_with_gemini and the test of its result
main_format ==
    /\ pc = "format"
    /\ \E outcome \in {"html", "empty", "raised"} :
          LET content == process_with_gemini(get_available_scholarships, outcome)
          IN  /\ run' = [run EXCEPT !.formatter = outcome,
                                    !.log = run.log \cup process_with_gemini_log(outcome)
                                        \cup (IF Truthy(content) THEN {}
                                              ELSE {"Failed to generate content"})]
              /\ pc' = IF Truthy(content) THEN "send" ELSE "idle"
    /\ UNCHANGED <<env, runs, deliveries, now, dbVars>>

\* main() calling mark_as_sent on what it handed over, whatever send_email returned
main_send_then_mark ==
    /\ pc = "send"
    /\ \E delivered \in BOOLEAN :
          run' = [run EXCEPT !.notifier = IF delivered THEN "ok" ELSE "failed",
                             !.handed = IdsOf({ InsertedRow(get_available_scholarships[i]) :
                                                   i \in DOMAIN get_available_scholarships })]
    /\ scholarships' = MarkedSent(scholarships, run'.handed)
    /\ pc' = "idle"
    /\ UNCHANGED <<env, runs, deliveries, now, lastOp, everUpserted, everMarked, offered>>

\* main(): enhance_scholarship_content, send_email and the log line
main_send ==
    /\ pc = "send"
    /\ \E delivered \in BOOLEAN :
          LET content == process_with_gemini(get_available_scholarships, run.formatter)
              enhanced_content == enhance_scholarship_content(content)
          IN  /\ run' = [run EXCEPT !.notifier = IF delivered THEN "ok" ELSE "failed",
                                    !.handed = IdsIn(enhanced_content),
                                    !.recipient = recipient_email(env),
                                    !.log = run.log \cup {send_email_log(delivered)} \cup
                                        {IF delivered
                                            THEN "Successfully processed and sent scholarship updates"
                                            ELSE "Failed to send email"}]
              /\ deliveries' = [i \in Ids |->
                    IF delivered /\ i \in IdsIn(enhanced_content)
                        THEN deliveries[i] + 1 ELSE deliveries[i]]
    /\ pc' = "idle"
    /\ UNCHANGED <<env, runs, now, dbVars>>

\* process_scholarships(), the whole call: get_available_scholarships,
\* process_with_gemini, and if its result is truthy send_email followed by
\* the log line; an exception inside the try block is logged
process_scholarships ==
    /\ pc = "idle"
    /\ runs < MaxRuns
    /\ runs' = runs + 1
    /\ \E outcome \in {"html", "empty", "raised", "escaped"}, delivered \in BOOLEAN :
          IF outcome = "escaped"
          THEN /\ run' = [NoRun EXCEPT !.entry = "process_scholarships",
                                       !.log = {"Error in processing scholarships"}]
               /\ pc' = main_except
               /\ UNCHANGED deliveries
          ELSE LET formatted_content == process_with_gemini(get_available_scholarships, outcome)
               IN  IF Truthy(formatted_content)
                   THEN /\ run' = [NoRun EXCEPT
                                !.entry = "process_scholarships",
                                !.fetched = Len(get_available_scholarships),
                                !.formatter = outcome,
                                !.notifier = IF delivered THEN "ok" ELSE "failed",
                                !.handed = IdsIn(formatted_content),
                                !.recipient = recipient_email(env),
                                !.log = process_with_gemini_log(outcome)
                                    \cup {send_email_log(delivered),
                                          "Successfully sent scholarship update email"}]
                        /\ deliveries' = [i \in Ids |->
                              IF delivered /\ i \in IdsIn(formatted_content)
                                  THEN deliveries[i] + 1 ELSE deliveries[i]]
                        /\ pc' = "idle"
                   ELSE /\ run' = [NoRun EXCEPT
                                !.entry = "process_scholarships",
                                !.fetched = Len(get_available_scholarships),
                                !.formatter = outcome,
                                !.log = {"No content generated for email"}]
                        /\ pc' = "idle"
                        /\ UNCHANGED deliveries
    /\ UNCHANGED <<env, now, dbVars>>

\* Database.add_scholarship(scholarship)
add_scholarship(scholarship) ==
    /\ pc = "idle"
    /\ now <= MaxIngestTicks
    /\ scholarships' = Upserted(scholarships, scholarship)
    /\ everUpserted' = everUpserted \cup {scholarship_id(scholarship)}
    /\ lastOp' = [op |-> "add_scholarship", scholarship |-> scholarship,
                  replaced |-> scholarship_id(scholarship) \in IdsOf(scholarships)]
    /\ offered' = Void
    /\ UNCHANGED <<env, pc, runVars, now, everMarked>>

\* the table after add_scholarship on the first k records of a sequence,
\* each call committing its own transaction (`with self.conn:`)
RECURSIVE UpsertedFirst(_, _, _)
UpsertedFirst(table, records, k) ==
    IF k = 0 THEN table
             ELSE Upserted(UpsertedFirst(table, records, k - 1), records[k])

\* ingest(records): add_scholarship on each record in order; failAt = 0 is
\* a call in which no upsert raises, failAt = k one in which the k-th
\* upsert raises a storage error, which ends the call
ingest(records, failAt) ==
    /\ pc = "idle"
    /\ now <= MaxIngestTicks
    /\ LET done == IF failAt = 0 THEN Len(records) ELSE failAt - 1
       IN  /\ scholarships' = UpsertedFirst(scholarships, records, done)
           /\ everUpserted' = everUpserted \cup
                                 { scholarship_id(records[k]) : k \in 1..done }
           /\ lastOp' = [op |-> "ingest", count |-> done, raised |-> failAt # 0]
    /\ offered' = Void
    /\ UNCHANGED <<env, pc, runVars, now, everMarked>>

\* Database.mark_as_sent(scholarship_ids)
mark_as_sent(scholarship_ids) ==
    /\ pc = "idle"
    /\ scholarships' = MarkedSent(scholarships, scholarship_ids)
    /\ everMarked' = everMarked \cup scholarship_ids
    /\ lastOp' = [op |-> "mark_as_sent", ids |-> scholarship_ids, raised |-> FALSE]
    /\ offered' = IF offered.valid /\ scholarship_ids \subseteq offered.ids
                     THEN [offered EXCEPT !.ids = offered.ids \ scholarship_ids]
                     ELSE Void
    /\ UNCHANGED <<env, pc, runVars, now, everUpserted>>

\* a selection that marks what it returns
get_unsent_scholarships_marking ==
    /\ pc = "idle"
    /\ lastOp' = [op |-> "get_unsent_scholarships",
                  rows |-> UnsentRows(scholarships, now),
                  expected |-> offered]
    /\ offered' = [valid |-> TRUE, ids |-> IdsOf(UnsentRows(scholarships, now))]
    /\ scholarships' = MarkedSent(scholarships, IdsOf(UnsentRows(scholarships, now)))
    /\ UNCHANGED <<env, pc, runVars, now, everUpserted, everMarked>>

\* Database.get_unsent_scholarships()
get_unsent_scholarships ==
    /\ pc = "idle"
    /\ lastOp' = [op |-> "get_unsent_scholarships",
                  rows |-> UnsentRows(scholarships, now),
                  expected |-> offered]
    /\ offered' = [valid |-> TRUE, ids |-> IdsOf(UnsentRows(scholarships, now))]
    /\ UNCHANGED <<env, pc, runVars, now, scholarships, everUpserted, everMarked>>

\* the clock advances
Tick ==
    /\ pc = "idle"
    /\ now < MaxDays * TicksPerDay
    /\ now' = now + 1
    /\ lastOp' = [op |-> "none"]
    /\ UNCHANGED <<env, pc, runVars, scholarships, everUpserted, everMarked, offered>>

\* a call of one of the Database methods
DatabaseCall ==
    \/ \E scholarship \in Candidates(now) : add_scholarship(scholarship)
    \/ \E ids \in SUBSET CallerIds : mark_as_sent(ids)
    \/ get_unsent_scholarships

Next ==
    \/ Import
    \/ DatabaseCall
    \/ Tick

Spec == Init /\ [][Next]_vars

RunNext ==
    \/ Import
    \/ DatabaseCall
    \/ main_start
    \/ main_format
    \/ main_send
    \/ process_scholarships

\* the sequences of records an ingest call can be given
IngestInputs ==
    UNION { [1..n -> Candidates(now)] : n \in 1..MaxIngestLen }

IngestNext ==
    \/ Import
    \/ DatabaseCall
    \/ \E records \in IngestInputs :
          \E failAt \in 0..Len(records) : ingest(records, failAt)

IngestSpec == Init /\ [][IngestNext]_vars

RunSpec == Init /\ [][RunNext]_vars

\* ============================================================ claims ====
\* how long ago, in ticks, the row's timestamp was
Age(r) == now - Instant(r.timestamp)

\* the row's timestamp lies in [now - window, now]
InWindow(r) == Age(r) >= 0 /\ Age(r) <= RetentionDays * TicksPerDay

\* the rows stored under an id
RowsOf(i) == { r \in scholarships : r.id = i }

\* C1: once a row has sent_in_email = TRUE, no later call leaves the row of
\* that id with sent_in_email = FALSE (sent is terminal).
C1_SentIsTerminal ==
    [][\A r \in scholarships : r.sent_in_email =>
            \A q \in scholarships' : q.id = r.id => q.sent_in_email]_vars

\* C2: after add_scholarship(s) there is exactly one row for the id of s,
\* it carries the title, description, source, url, amount, deadline and
\* timestamp of s (so of the second call, when the id was stored before),
\* no id has two rows, and there are no more rows than ids ever upserted.
C2_UpsertReplaces ==
    /\ Cardinality(IdsOf(scholarships)) = Cardinality(scholarships)
    /\ Cardinality(scholarships) <= Cardinality(everUpserted)
    /\ lastOp.op = "add_scholarship" =>
          LET s == lastOp.scholarship
              rows == { r \in scholarships : r.title = s.title /\ r.source = s.source }
          IN  /\ Cardinality(rows) = 1
              /\ Cardinality(RowsOf(scholarship_id(s))) = 1
              /\ \A r \in rows :
                    /\ r.description = s.description
                    /\ r.url = s.url
                    /\ r.amount = s.amount
                    /\ r.deadline = s.deadline
                    /\ r.timestamp = s.timestamp

\* a second add_scholarship for a stored id, with the fields of the second call
C2_Witness ==
    /\ lastOp.op = "add_scholarship"
    /\ lastOp.replaced
    /\ lastOp.scholarship.description = "d2"
    /\ lastOp.scholarship.timestamp = isoformat(1)
    /\ Cardinality(scholarships) = 2

\* C3: every id that was upserted and never passed to mark_as_sent has a
\* row, and whenever that row's timestamp is inside the retention window a
\* call of get_unsent_scholarships returns it.
C3_AtLeastOnce ==
    lastOp.op = "get_unsent_scholarships" =>
        \A i \in everUpserted \ everMarked :
            \E r \in scholarships :
                /\ r.id = i
                /\ InWindow(r) => r \in lastOp.rows

\* a row at least a day old, never marked, returned by a call that follows
\* an earlier call which returned it too
C3_Witness ==
    /\ lastOp.op = "get_unsent_scholarships"
    /\ lastOp.expected.valid
    /\ \E r \in lastOp.rows :
          /\ r.id \notin everMarked
          /\ r.id \in lastOp.expected.ids
          /\ Age(r) >= TicksPerDay

\* C4: get_unsent_scholarships does not return an unsent row whose
\* timestamp is 8 days before now, returns one whose timestamp is 6 days
\* before now, and leaves the table as it was.
C4_RetentionWindow ==
    /\ [](lastOp.op = "get_unsent_scholarships" =>
            \A r \in scholarships : ~ r.sent_in_email =>
                /\ Age(r) = (RetentionDays + 1) * TicksPerDay => r \notin lastOp.rows
                /\ Age(r) = (RetentionDays - 1) * TicksPerDay => r \in lastOp.rows)
    /\ [][lastOp'.op = "get_unsent_scholarships" => scholarships' = scholarships]_vars

\* a call with an unsent row 8 days old (left out, still stored) and an
\* unsent row 6 days old (returned)
C4_Witness ==
    /\ lastOp.op = "get_unsent_scholarships"
    /\ \E r \in scholarships, q \in scholarships :
          /\ ~ r.sent_in_email /\ Age(r) = (RetentionDays + 1) * TicksPerDay
          /\ r \notin lastOp.rows
          /\ ~ q.sent_in_email /\ Age(q) = (RetentionDays - 1) * TicksPerDay
          /\ q \in lastOp.rows

\* a step of a run of main()
IsRunStep == pc \in {"format", "send"} \/ pc' \in {"format", "send"}

\* C5: a step of a run changes the table only if send_email has returned
\* success in that run; in a run where it returned failure no row changes.
C5_MarkOnlyAfterSuccess ==
    [][IsRunStep => (scholarships' # scholarships => run'.notifier = "ok")]_vars

\* a run in which send_email returned failure, ended, with one of the
\* records it handed over stored and still unsent
C5_Witness ==
    /\ pc = "idle"
    /\ run.notifier = "failed"
    /\ \E r \in scholarships : r.id \in run.handed /\ ~ r.sent_in_email

\* C6: a run whose formatting step raised never calls send_email.
C6_FormatterFailureSkipsNotifier ==
    run.formatter = "raised" => (pc # "send" /\ run.notifier = "none")

\* C7: what a run hands to send_email is exactly the stored unsent rows
\* inside the window; after a successful delivery those rows are marked
\* sent; no record is delivered successfully in two runs.
C7_DeliverUnsentOnce ==
    /\ [][pc = "send" /\ pc' = "idle" =>
            /\ run'.handed = IdsOf({ r \in scholarships : ~ r.sent_in_email /\ InWindow(r) })
            /\ run'.notifier = "ok" =>
                  \A r \in scholarships' : r.id \in run'.handed => r.sent_in_email]_vars
    /\ [](\A i \in Ids : deliveries[i] <= 1)

\* C8: mark_as_sent(ids) raises nothing, keeps the set of stored ids, and
\* changes each row only in sent_in_email, which becomes TRUE exactly for
\* the rows whose id is among ids (and stays as it was for the others).
C8_MarkSentFrame ==
    [][lastOp'.op = "mark_as_sent" =>
            /\ lastOp'.raised = FALSE
            /\ IdsOf(scholarships') = IdsOf(scholarships)
            /\ Cardinality(scholarships') = Cardinality(scholarships)
            /\ \A r \in scholarships :
                  [r EXCEPT !.sent_in_email = r.sent_in_email \/ r.id \in lastOp'.ids]
                      \in scholarships']_vars

\* a call with an id that has no row, an id whose row it marked, and a
\* third row, not named, still unsent
C8_Witness ==
    /\ lastOp.op = "mark_as_sent"
    /\ \E i \in lastOp.ids : RowsOf(i) = {}
    /\ \E r \in scholarships, q \in scholarships :
          /\ r.id \in lastOp.ids /\ r.sent_in_email
          /\ q.id \notin lastOp.ids /\ ~ q.sent_in_email

\* C9 as stated: two rows with one title and two sources have two ids and
\* adding one keeps the other; get_unsent_scholarships returns both while
\* unsent; and a call that follows an earlier call and mark_as_sent(S),
\* with no add_scholarship between, returns exactly the ids returned
\* before less S.
C9_SelectAfterMark ==
    /\ [][lastOp'.op = "add_scholarship" =>
            \A r \in scholarships :
                (r.title = lastOp'.scholarship.title /\ r.source # lastOp'.scholarship.source)
                    => (r \in scholarships' /\ r.id # scholarship_id(lastOp'.scholarship))]_vars
    /\ [](lastOp.op = "get_unsent_scholarships" =>
            /\ \A r \in scholarships, q \in scholarships :
                  (r.title = q.title /\ r.source # q.source
                        /\ ~ r.sent_in_email /\ ~ q.sent_in_email)
                    => (r.id # q.id /\ {r, q} \subseteq lastOp.rows)
            /\ lastOp.expected.valid => IdsOf(lastOp.rows) = lastOp.expected.ids)

\* C9 amended: as above, but the two rows are returned provided both are
\* inside the retention window, and the later call returns no id other
\* than those returned before less S, and each of those whose row is still
\* inside the retention window.
C9_SelectAfterMarkInWindow ==
    /\ [][lastOp'.op = "add_scholarship" =>
            \A r \in scholarships :
                (r.title = lastOp'.scholarship.title /\ r.source # lastOp'.scholarship.source)
                    => (r \in scholarships' /\ r.id # scholarship_id(lastOp'.scholarship))]_vars
    /\ [](lastOp.op = "get_unsent_scholarships" =>
            /\ \A r \in scholarships, q \in scholarships :
                  (r.title = q.title /\ r.source # q.source
                        /\ ~ r.sent_in_email /\ ~ q.sent_in_email
                        /\ InWindow(r) /\ InWindow(q))
                    => (r.id # q.id /\ {r, q} \subseteq lastOp.rows)
            /\ lastOp.expected.valid =>
                  /\ IdsOf(lastOp.rows) \subseteq lastOp.expected.ids
                  /\ \A i \in lastOp.expected.ids :
                        \A r \in RowsOf(i) : InWindow(r) => r \in lastOp.rows)

\* two rows with one title and two sources, one marked after a call that
\* returned both, and the next call returning the other alone
C9_Witness ==
    /\ lastOp.op = "get_unsent_scholarships"
    /\ lastOp.expected.valid
    /\ \E r \in scholarships, q \in scholarships :
          /\ r.title = q.title /\ r.source # q.source
          /\ r.sent_in_email /\ r.id \in everMarked
          /\ lastOp.expected.ids = {q.id}
          /\ lastOp.rows = {q}

\* C10: get_unsent_scholarships returns all and only the rows with
\* sent_in_email = FALSE whose timestamp lies in [now - 7 days, now].
C10_SelectExactlyWindow ==
    lastOp.op = "get_unsent_scholarships" =>
        lastOp.rows = { r \in scholarships : ~ r.sent_in_email /\ InWindow(r) }

\* C12: with GOOGLE_API_KEY, EMAIL_ADDRESS, EMAIL_PASSWORD or
\* RECIPIENT_EMAIL absent from the environment the program stops at import:
\* no run starts, nothing is formatted or delivered, and no run ever hands
\* a mail to send_email's fallback recipient.
C12_MissingConfigStopsAtImport ==
    /\ env # EnvVars =>
          /\ pc \in {"import", "config_error"}
          /\ run = NoRun
          /\ runs = 0
          /\ \A i \in Ids : deliveries[i] = 0
    /\ run.recipient # "fallback"

\* the import has failed on an environment without RECIPIENT_EMAIL
C12_Witness ==
    /\ pc = "config_error"
    /\ "RECIPIENT_EMAIL" \notin env
    /\ "GOOGLE_API_KEY" \in env

\* C13: no error leaves a run: after a run, whatever failed in it, the
\* process is idle again and the next run can start.
C13_RunReturns ==
    /\ pc # "crashed"
    /\ (run.entry # "none" /\ pc \notin {"format", "send"}) =>
          /\ pc = "idle"
          /\ runs < MaxRuns => ENABLED (main_start \/ process_scholarships)

\* a run of main has ended in its except clause, and another one whose
\* send_email failed has returned
C13_Witness ==
    /\ pc = "idle"
    /\ runs < MaxRuns
    /\ run.entry = "main"
    /\ \/ "Error in main" \in run.log
       \/ run.notifier = "failed"

C17_SuccessLoggedOnlyAfterDelivery ==
    (run.log \cap {"Successfully sent scholarship update email",
                   "Successfully processed and sent scholarship updates"} # {})
        => run.notifier = "ok"

\* C11: an ingest call in which an upsert raised a storage error leaves the
\* table as it was before the call: no row of an earlier record of the
\* same call remains.
C11_IngestAllOrNothing ==
    [][(lastOp'.op = "ingest" /\ lastOp'.raised) => scholarships' = scholarships]_vars

\* C15: get_unsent_scholarships is a pure read: the call leaves the table,
\* rows and fields, as it was, and a call that follows another one with
\* nothing in between returns the same rows.
C15_SelectIsPureRead ==
    [][lastOp'.op = "get_unsent_scholarships" =>
          /\ scholarships' = scholarships
          /\ \A r \in scholarships : \E q \in scholarships' :
                /\ q.id = r.id
                /\ q.sent_in_email = r.sent_in_email
                /\ q.timestamp = r.timestamp
          /\ lastOp.op = "get_unsent_scholarships" => lastOp'.rows = lastOp.rows]_vars

\* a call has returned a row, just as the call before it did, from a table
\* that also holds a row marked as sent
C15_Witness ==
    /\ lastOp.op = "get_unsent_scholarships"
    /\ lastOp.rows # {}
    /\ lastOp.expected.valid
    /\ lastOp.expected.ids = IdsOf(lastOp.rows)
    /\ \E r \in scholarships : r.sent_in_email

\* C16: records that differ in title or in source never share a row:
\* add_scholarship of one leaves every row of a different (title, source)
\* pair in the table.
C16_DistinctPairsDistinctRows ==
    [][lastOp'.op = "add_scholarship" =>
          \A r \in scholarships :
              <<r.title, r.source>> # <<lastOp'.scholarship.title, lastOp'.scholarship.source>>
                  => \E q \in scholarships' : q.title = r.title /\ q.source = r.source]_vars
====
